---- MODULE Spec2Model ----
(***************************************************************************)
(* Model of the homebridge-dingz platform: restoring cached accessories,   *)
(* the three registration entry points, UDP device discovery, the          *)
(* retry / circuit-breaker policy and the button callback server.          *)
(***************************************************************************)
EXTENDS Integers, Sequences, FiniteSets, TLC

VARIABLES
    config,        \* this.config: which optional parts are configured
    launched,      \* DID_FINISH_LAUNCHING has fired
    adding,        \* addDevices loop: "idle" | "running" | "done"
    socket,        \* discovery socket: "none" | "bound" | "closed"
    requestServer, \* callback server: "none" | "listening"
    accessories,   \* this.accessories: UUID -> accessory handle
    restored,      \* UUIDs the bridge replayed through configureAccessory
    lastRestore,   \* the latest configureAccessory call and how it ended
    registered,    \* UUID -> number of registerPlatformAccessories calls
    constructed,   \* UUID -> number of accessory handles constructed
    identified,    \* UUID -> number of identify() calls on the handle
    updateInfo,    \* UUID -> number of UPDATE_INFO events emitted
    flows,         \* registration flows: one record per entry point call
    discovered,    \* this.discovered: keys of the discovery Map
    handled,       \* the six MAC bytes of every 8-byte datagram handled
    attempts,      \* six MAC bytes -> registration attempts discovery started
    lastDgram,     \* the latest datagram handled and what the handler did
    cbState,       \* circuit breaker: "closed" | "open" | "halfOpen"
    cbFailures,    \* ConsecutiveBreaker failure count
    cbElapsed,     \* the breaker's halfOpenAfter window has passed
    exec,          \* the retryWithBreaker.execute call under study
    requests,      \* callback server: one record per inbound request
    pir,           \* PIR accessory -> its callback URL registration
    outlet,        \* a switch accessory: cached report, polls, handler calls
    sensor         \* a PIR accessory: cached values, polls, mutex, updates

vars == <<config, launched, adding, socket, requestServer, accessories,
          restored, lastRestore, registered, constructed, identified,
          updateInfo, flows, discovered, handled, attempts, lastDgram,
          cbState,
          cbFailures, cbElapsed, exec, requests, pir, outlet, sensor>>

startVars == <<config, launched, adding, socket, requestServer>>
registryVars == <<accessories, registered, constructed, identified, updateInfo>>
restoreVars == <<restored, lastRestore>>
discoveryVars == <<discovered, handled, attempts, lastDgram>>
breakerVars == <<cbState, cbFailures, cbElapsed>>

-----------------------------------------------------------------------------
(* Bounds of the model *)

MaxFlows == 2       \* registration entry point calls per behaviour
MaxDatagrams == 2   \* datagrams handled per behaviour
MaxRequests == 2    \* callback requests per behaviour
MaxExecs == 2       \* retryWithBreaker.execute calls per behaviour

-----------------------------------------------------------------------------
(* JavaScript values *)

JsStr(s) == [k |-> "string", n |-> 0, s |-> s]
JsNum(n) == [k |-> "number", n |-> n, s |-> ""]
JsUndef == [k |-> "undefined", n |-> 0, s |-> ""]

\* An operator that always takes its right-hand side.
TakesFallback(a, b) == b

\* a ?? b
Coalesce(a, b) == IF a = JsUndef THEN b ELSE a

\* Strings whose characters matter are sequences of one-character strings.
UpperChar(c) ==
    CASE c = "a" -> "A" [] c = "b" -> "B" [] c = "c" -> "C"
      [] c = "d" -> "D" [] c = "e" -> "E" [] c = "f" -> "F"
      [] OTHER -> c

toUpperCase(str) == [i \in DOMAIN str |-> UpperChar(str[i])]

\* api.hap.uuid.generate: a digest of its argument, one UUID per string.
uuid_generate(str) == <<"uuid", str>>

-----------------------------------------------------------------------------
(* Device descriptors and the type checks of the entry points *)

MacLower == <<"a","a","b","b","c","c","d","d","e","e","f","f">>
MacUpper == toUpperCase(MacLower)
MacOther == <<"0","1","2","3","4","5","6","7","8","9","A","B">>

\* What an info endpoint yields: data, or undefined when the fetch failed.
NoData == [ok |-> FALSE, mac |-> <<>>, type |-> JsUndef, name |-> JsUndef,
           puck_hw_model |-> JsUndef]
Answer(mac, type, name, puck) ==
    [ok |-> TRUE, mac |-> mac, type |-> type, name |-> name,
     puck_hw_model |-> puck]

\* GET /api/v1/device: { <mac>: { type, puck_hw_model, ... } }
DingzAnswers ==
    { Answer(MacLower, JsStr("dingz"), JsUndef, JsStr("DZ1F-4CH")),
      Answer(MacUpper, JsStr("dingz"), JsUndef, JsUndef),
      Answer(MacOther, JsStr("dingz"), JsUndef, JsUndef),
      Answer(MacLower, JsStr("WS2"), JsUndef, JsUndef) }

\* The type values a myStrom info endpoint reports, by firmware version.
MyStromTypes ==
    { JsNum(n) : n \in 101..108 }
    \cup { JsStr("WS2"), JsStr("WSEU"), JsStr("WRS"), JsStr("dingz"),
           JsStr("102"), JsStr("106"), JsStr("107"), JsUndef }

\* The types among them that the modelled devices report.
ReportedTypes ==
    { JsNum(101), JsNum(102), JsNum(106), JsNum(107), JsStr("WRS"), JsUndef }

\* GET /info and GET /api/v1/info: { mac, type, name?, ... }
MyStromAnswers ==
    { Answer(MacLower, t, JsStr("Plug"), JsUndef) : t \in ReportedTypes }
    \cup { Answer(MacOther, JsStr("WSEU"), JsUndef, JsUndef),
           Answer(MacOther, JsStr("WS2"), JsUndef, JsUndef),
           Answer(MacOther, JsStr("WRS"), JsUndef, JsUndef) }

IsDingzType(t) == t = JsStr("dingz")

IsSwitchType(t) ==
    ~ (/\ t # JsStr("WS2")
       /\ t # JsNum(106)
       /\ t # JsStr("WSEU")
       /\ t # JsNum(107)
       /\ t # JsUndef)

\* A bulb check that lets the EU switch through as well.
IsBulbOrEuSwitch(t) ==
    ~ (t # JsNum(102) /\ t # JsNum(105) /\ t # JsStr("WRS") /\ t # JsNum(107))

IsBulbType(t) ==
    ~ (t # JsNum(102) /\ t # JsNum(105) /\ t # JsStr("WRS"))

\* Property key of a value used as an object index.
NumKey(n) ==
    CASE n = 101 -> "101" [] n = 102 -> "102" [] n = 103 -> "103"
      [] n = 104 -> "104" [] n = 105 -> "105" [] n = 106 -> "106"
      [] n = 107 -> "107" [] n = 108 -> "108" [] OTHER -> "NaN"

\* An index that is not converted: only a string finds a key.
StringKeyOnly(v) == IF v.k = "string" THEN v.s ELSE "undefined"

PropertyKey(v) ==
    IF v.k = "number" THEN NumKey(v.n)
    ELSE IF v.k = "string" THEN v.s ELSE "undefined"

MYSTROM_SWITCH_TYPES(key) ==
    CASE key = "WS2" -> JsStr("CH v2")
      [] key = "106" -> JsStr("CH v2")
      [] key = "WSEU" -> JsStr("EU")
      [] key = "107" -> JsStr("EU")
      [] OTHER -> JsUndef

Accepts(ep, t) ==
    CASE ep = "dingz" -> IsDingzType(t)
      [] ep = "switch" -> IsSwitchType(t)
      [] ep = "bulb" -> IsBulbType(t)

AnswersOf(ep) == IF ep = "dingz" THEN DingzAnswers ELSE MyStromAnswers

\* deviceInfo built by an entry point from its arguments and the descriptor
DeviceInfoOf(ep, address, name, token, data) ==
    [ name |-> IF ep = "dingz" THEN name ELSE Coalesce(data.name, name),
      address |-> address,
      mac |-> toUpperCase(data.mac),
      token |-> token,
      model |-> CASE ep = "dingz" ->
                       Coalesce(data.puck_hw_model, JsStr("DingZ"))
                  [] ep = "switch" ->
                       Coalesce(MYSTROM_SWITCH_TYPES(PropertyKey(data.type)),
                                JsStr("CH v1"))
                  [] ep = "bulb" -> JsStr("102"),
      accessoryClass |-> CASE ep = "dingz" -> "DingzDaAccessory"
                           [] ep = "switch" -> "MyStromSwitchAccessory"
                           [] ep = "bulb" -> "MyStromLightbulbAccessory" ]

-----------------------------------------------------------------------------
(* Counters keyed by UUID *)

Count(f, k) == IF k \in DOMAIN f THEN f[k] ELSE 0
Inc(f, k) == IF k \in DOMAIN f THEN [f EXCEPT ![k] = @ + 1] ELSE f @@ (k :> 1)

-----------------------------------------------------------------------------
(* configureAccessory: replay of the accessories the bridge had persisted *)

GlobalToken == JsStr("global-token")

CachedDevice(mac, class) ==
    [ name |-> JsStr("Cached"), address |-> "10.0.0.9", mac |-> mac,
      token |-> JsUndef, model |-> JsStr("cached"), accessoryClass |-> class ]

\* accessory.context of a persisted accessory
PersistedContexts ==
    { [hasDevice |-> FALSE, accessoryClass |-> JsUndef],
      [hasDevice |-> TRUE, accessoryClass |-> JsUndef],
      [hasDevice |-> TRUE, accessoryClass |-> JsStr("DingzDaAccessory")],
      [hasDevice |-> TRUE, accessoryClass |-> JsStr("MyStromSwitchAccessory")],
      [hasDevice |-> TRUE, accessoryClass |-> JsStr("MyStromLightbulbAccessory")],
      [hasDevice |-> TRUE, accessoryClass |-> JsStr("MyStromPIRAccessory")] }

PersistedAccessories ==
    { [UUID |-> uuid_generate(m), mac |-> m, context |-> c] :
          m \in {MacUpper}, c \in PersistedContexts }

KnownAccessoryClass(class) ==
    class \in { JsStr("DingzDaAccessory"), JsStr("MyStromSwitchAccessory"),
                JsStr("MyStromLightbulbAccessory") }

\* How a configureAccessory call ends for a given context.
ConfigureOutcome(context) ==
    IF ~ context.hasDevice
    THEN "TypeError"       \* context.device.accessoryClass in the first log call
    ELSE IF context.accessoryClass = JsUndef
    THEN "skipped"         \* 'No Accessory device context'
    ELSE IF KnownAccessoryClass(context.accessoryClass)
    THEN "restored"
    ELSE "skipped"         \* 'No Accessory type defined'

\* The TypeError leaves configureAccessory and ends the bridge's start-up.
StartupAborted == lastRestore.outcome = "TypeError"

configureAccessory(accessory) ==
    /\ ~ launched
    /\ ~ StartupAborted
    /\ accessory.UUID \notin restored
    /\ restored' = restored \cup {accessory.UUID}
    /\ lastRestore' = [UUID |-> accessory.UUID, context |-> accessory.context,
                       outcome |-> ConfigureOutcome(accessory.context)]
    /\ IF ConfigureOutcome(accessory.context) = "restored"
       THEN /\ constructed' = Inc(constructed, accessory.UUID)
            /\ accessories' = [k \in DOMAIN accessories \cup {accessory.UUID} |->
                                 IF k = accessory.UUID
                                 THEN CachedDevice(accessory.mac,
                                                   accessory.context.accessoryClass.s)
                                 ELSE accessories[k]]
       ELSE UNCHANGED <<constructed, accessories>>
    /\ UNCHANGED <<outlet, sensor, pir, startVars, registered, identified, updateInfo, flows,
                   discoveryVars, breakerVars, exec, requests>>

-----------------------------------------------------------------------------
(* The registration entry points *)

\* A test that takes every value for falsy.
NeverTruthy(v) == FALSE

\* A Promise object is truthy whatever it settles to.
Truthy(v) == v \notin {"undefined", "false", "null"}

\* The value an entry point hands to its caller: `success` is the promise
\* returned by .then(), tested with `if (!success)` right after it was made.
EntryReturn(success) ==
    IF ~ Truthy(success) THEN "DeviceNotReachableError" ELSE "true"

NewFlow(ep, address, name, token) ==
    [ ep |-> ep, address |-> address, name |-> name, token |-> token,
      st |-> "fetching", data |-> NoData, promise |-> "pending",
      returned |-> EntryReturn("promise"), path |-> "", uuid |-> <<>>,
      wrongType |-> JsUndef, axios |-> "" ]

addDingzDevice(address, name, token) ==
    NewFlow("dingz", address, Coalesce(name, JsStr("Unnamed DingzDa Device")),
            token)

addMyStromSwitchDevice(address, name, token) ==
    NewFlow("switch", address,
            Coalesce(name, JsStr("Unidentified myStrom Switch")), token)

addMyStromLightbulbDevice(address, name, token) ==
    NewFlow("bulb", address,
            Coalesce(name, JsStr("Unidentified myStrom Lightbulb/LED")), token)

\* How the axios request ends: a response, or a rejection with an error
\* code (connection refused, timeout, a response that does not parse).
AxiosFailures == {"ECONNREFUSED", "ECONNABORTED", "HPE_INVALID_CONSTANT"}
AxiosOutcomes(ep) ==
    { [kind |-> "response", status |-> 200, data |-> a] : a \in AnswersOf(ep) }
    \cup { [kind |-> k, status |-> 0, data |-> NoData] : k \in AxiosFailures }

\* A catch handler that lets every rejection through.
CatchesNothing(kind) == FALSE

\* .catch((e) => { this.log.error('Error:', e); })
CatchesRejection(kind) == TRUE

\* The value fetch resolves to: the body or the status of a response,
\* undefined (NoData) after a rejection that was caught.
FetchResult(o, returnBody) ==
    IF o.kind = "response"
    THEN IF returnBody THEN o.data ELSE JsNum(o.status)
    ELSE NoData

\* fetch: the one axios request of the flow settles. A rejection that the
\* catch handler did not take would reject the entry point's promise.
fetch(i) ==
    /\ i \in DOMAIN flows
    /\ flows[i].st = "fetching"
    /\ \E o \in AxiosOutcomes(flows[i].ep) :
           IF o.kind # "response" /\ ~ CatchesRejection(o.kind)
           THEN flows' = [flows EXCEPT ![i].st = "done", ![i].axios = o.kind,
                                       ![i].promise = o.kind,
                                       ![i].path = "threw"]
           ELSE flows' = [flows EXCEPT ![i].st = "settled",
                                       ![i].axios = o.kind,
                                       ![i].data = FetchResult(o, TRUE)]
    /\ UNCHANGED <<outlet, sensor, pir, startVars, registryVars, restoreVars, discoveryVars,
                   breakerVars, exec, requests>>

RegistersAgain(uuid) == TRUE

\* `!this.accessories[uuid]`
IsUnregistered(uuid) == uuid \notin DOMAIN accessories

\* Whether the callback's type check throws InvalidTypeError.
WrongType(ep, data) == ~ Accepts(ep, data.type)

\* Whether the already-initialized branch emits UPDATE_INFO.
EmitsUpdateInfo(ep) == ep = "dingz"

\* The .then() callback of an entry point: one synchronous run.
thenCallback(i) ==
    /\ i \in DOMAIN flows
    /\ flows[i].st = "settled"
    /\ LET f == flows[i]
           info == DeviceInfoOf(f.ep, f.address, f.name, f.token, f.data)
           uuid == uuid_generate(info.mac)
           Done(promise, path, u) ==
               [flows EXCEPT ![i].st = "done", ![i].data = NoData,
                             ![i].promise = promise, ![i].path = path,
                             ![i].uuid = u, ![i].axios = "",
                             \* the type named in InvalidTypeError's message
                             ![i].wrongType = IF promise = "InvalidTypeError"
                                              THEN f.data.type ELSE JsUndef]
       IN  IF ~ f.data.ok
           THEN /\ flows' = Done("undefined", "nodata", <<>>)
                /\ UNCHANGED registryVars
           ELSE IF WrongType(f.ep, f.data)
           THEN /\ flows' = Done("InvalidTypeError", "invalid", <<>>)
                /\ UNCHANGED registryVars
           ELSE IF IsUnregistered(uuid)
           THEN /\ constructed' = Inc(constructed, uuid)
                /\ registered' = Inc(registered, uuid)
                /\ accessories' = [k \in DOMAIN accessories \cup {uuid} |->
                                     IF k = uuid THEN info ELSE accessories[k]]
                /\ flows' = Done("true", "new", uuid)
                /\ UNCHANGED <<identified, updateInfo>>
           ELSE /\ updateInfo' = IF EmitsUpdateInfo(f.ep)
                                 THEN Inc(updateInfo, uuid) ELSE updateInfo
                /\ identified' = Inc(identified, uuid)
                /\ flows' = Done("true", "already", uuid)
                /\ UNCHANGED <<accessories, registered, constructed>>
    /\ UNCHANGED <<outlet, sensor, pir, startVars, restoreVars, discoveryVars, breakerVars, exec,
                   requests>>

\* What indexing this.accessories gives for a key it does not hold.
NoAccessory ==
    [ name |-> JsUndef, address |-> "", mac |-> <<>>, token |-> JsUndef,
      model |-> JsUndef, accessoryClass |-> "undefined" ]

\* A lookup that takes the MAC as written.
getAccessoryAsWritten(mac) ==
    LET uuid == uuid_generate(mac) IN
    IF uuid \in DOMAIN accessories THEN accessories[uuid] ELSE NoAccessory

getAccessoryByMac(mac) ==
    LET uuid == uuid_generate(toUpperCase(mac)) IN
    IF uuid \in DOMAIN accessories THEN accessories[uuid] ELSE NoAccessory

-----------------------------------------------------------------------------
(* Startup and the configured devices *)

\* A launch handler that starts every part whatever the configuration says.
didFinishLaunchingAll ==
    /\ ~ launched
    /\ ~ StartupAborted
    /\ launched' = TRUE
    /\ adding' = "running"
    /\ socket' = "bound"
    /\ requestServer' = "listening"
    /\ UNCHANGED <<outlet, sensor, pir, config, registryVars, restoreVars, flows, discoveryVars,
                   breakerVars, exec, requests>>

\* The DID_FINISH_LAUNCHING listener set up by the constructor.
didFinishLaunching ==
    /\ ~ launched
    /\ ~ StartupAborted
    /\ launched' = TRUE
    /\ adding' = IF config.devices THEN "running" ELSE "idle"
    /\ socket' = IF config.autoDiscover THEN "bound" ELSE "none"
    /\ requestServer' = "listening"
    /\ UNCHANGED <<outlet, sensor, pir, config, registryVars, restoreVars, flows, discoveryVars,
                   breakerVars, exec, requests>>

\* Entries of config.devices
ConfigDevices ==
    { [type |-> "Dingz", address |-> "10.0.0.1", name |-> JsStr("Hall"),
       token |-> JsUndef],
      [type |-> "myStromSwitch", address |-> "10.0.0.2", name |-> JsUndef,
       token |-> JsStr("secret")],
      [type |-> "myStromBulb", address |-> "10.0.0.3", name |-> JsStr("Lamp"),
       token |-> JsUndef],
      [type |-> "myStromLED", address |-> "10.0.0.3", name |-> JsStr("Lamp"),
       token |-> JsUndef],
      [type |-> "myStromPIR", address |-> "10.0.0.4", name |-> JsStr("PIR"),
       token |-> JsUndef] }

\* The entry point call addDevices makes for one device, <<>> when it skips.
ConfiguredCall(device) ==
    LET token == Coalesce(device.token, GlobalToken) IN
    CASE device.type = "Dingz" ->
             <<addDingzDevice(device.address, device.name, token)>>
      [] device.type = "myStromSwitch" ->
             <<addMyStromSwitchDevice(device.address, device.name, token)>>
      [] device.type \in {"myStromBulb", "myStromLED"} ->
             <<addMyStromLightbulbDevice(device.address, device.name, token)>>
      [] OTHER -> <<>>

\* What the breaker's consecutive-failure count becomes when execute runs
\* the operation `call`: the entry point returned, or threw at its caller.
BreakerCount(call) ==
    IF call = <<>> THEN cbFailures
    ELSE IF call[1].returned = "true" THEN 0 ELSE cbFailures + 1

\* One iteration of the loop in addDevices. The operation handed to
\* retryWithBreaker.execute returns true at once, so the policy records a
\* success and the loop goes on to the next device.
addDevices(device) ==
    /\ adding = "running"
    /\ Len(flows) < MaxFlows
    /\ cbState = "closed"
    /\ flows' = flows \o ConfiguredCall(device)
    /\ cbFailures' = BreakerCount(ConfiguredCall(device))
    /\ UNCHANGED <<outlet, sensor, pir, startVars, registryVars, restoreVars, discoveryVars,
                   cbState, cbElapsed, exec, requests>>

addDevicesDone ==
    /\ adding = "running"
    /\ adding' = "done"
    /\ UNCHANGED <<outlet, sensor, pir, config, launched, socket, requestServer, registryVars,
                   restoreVars, flows, discoveryVars, breakerVars, exec,
                   requests>>

-----------------------------------------------------------------------------
(* The callback URL of a PIR accessory, set under retrySlow *)

\* Attempts of one retrySlow.execute call the model follows
MaxSlowAttempts == 3

\* The PIR accessories constructed, by address
PirAccessories == {"10.0.0.4", "10.0.0.5"}

NoCallback == [st |-> "none", invoked |-> 0, result |-> "", request |-> "none"]

\* retrySlow = Policy.handleAll().orWhenResult((retry) => retry === true):
\* a thrown error and the result true are the outcomes that are retried.
SlowRetries(result) == result \in {"error", "true"}

\* The operation given to retrySlow.execute is an arrow function with a
\* block body: it calls setButtonCallbackUrl and drops what the call gives
\* back, so it ends with undefined once the call has returned, and with
\* the error if the call itself throws.
OpOutcomes == {"returns", "throws"}
OpResult(outcome) == IF outcome = "throws" THEN "error" ELSE "undefined"

\* The end of the constructor: retrySlow.execute(op) starts its first attempt.
pirConstructor(a) ==
    /\ pir[a].st = "none"
    /\ pir' = [pir EXCEPT ![a].st = "attempt"]
    /\ UNCHANGED <<outlet, sensor, startVars, registryVars, restoreVars, flows,
                   discoveryVars, breakerVars, exec, requests>>

\* One attempt of retrySlow: the operation runs, and the policy either
\* schedules another attempt or resolves the execute call.
slowAttempt(a, outcome) ==
    /\ pir[a].st = "attempt"
    /\ pir[a].invoked < MaxSlowAttempts
    /\ pir' = [pir EXCEPT
                  ![a].invoked = @ + 1,
                  ![a].result = OpResult(outcome),
                  ![a].request = IF outcome = "returns" THEN "pending" ELSE @,
                  ![a].st = IF SlowRetries(OpResult(outcome))
                            THEN "backoff" ELSE "done"]
    /\ UNCHANGED <<outlet, sensor, startVars, registryVars, restoreVars, flows,
                   discoveryVars, breakerVars, exec, requests>>

\* The exponential delay before the next attempt (10 s up to one hour) passes.
slowDelayElapses(a) ==
    /\ pir[a].st = "backoff"
    /\ pir' = [pir EXCEPT ![a].st = "attempt"]
    /\ UNCHANGED <<outlet, sensor, startVars, registryVars, restoreVars, flows,
                   discoveryVars, breakerVars, exec, requests>>

\* The request setButtonCallbackUrl sent to the device ends: the device
\* took the URL, or it could not be reached.
setButtonCallbackUrl(a, reachable) ==
    /\ pir[a].request = "pending"
    /\ pir' = [pir EXCEPT ![a].request = IF reachable THEN "set" ELSE "failed"]
    /\ UNCHANGED <<outlet, sensor, startVars, registryVars, restoreVars, flows,
                   discoveryVars, breakerVars, exec, requests>>

NextSlow ==
    \/ \E a \in PirAccessories : pirConstructor(a)
    \/ \E a \in PirAccessories : \E outcome \in OpOutcomes :
           slowAttempt(a, outcome)
    \/ \E a \in PirAccessories : slowDelayElapses(a)
    \/ \E a \in PirAccessories : \E reachable \in BOOLEAN :
           setButtonCallbackUrl(a, reachable)

-----------------------------------------------------------------------------
(* The switch accessory: its poller and its characteristic handlers *)

\* Polls started and handler calls made per behaviour
MaxPolls == 2
MaxCalls == 2

\* private outletState = { relay: false, temperature: 0, power: 0 }
InitialOutletState ==
    [ok |-> TRUE, relay |-> FALSE, temperature |-> 0, power |-> 0]

\* Bodies of GET /report
SwitchReports ==
    { [ok |-> TRUE, relay |-> r, temperature |-> 21, power |-> p] :
          r \in BOOLEAN, p \in {0, 7} }

\* How the axios request for the report ends
SwitchOutcomes ==
    { [kind |-> "response", status |-> 200, data |-> r] : r \in SwitchReports }
    \cup { [kind |-> k, status |-> 0, data |-> NoData] : k \in AxiosFailures }

NoCall == [n |-> 0, handler |-> "", raised |-> "none", callbacks |-> 0,
           value |-> <<>>]

NewOutlet == [state |-> InitialOutletState, polls |-> 0, inflight |-> 0,
              pushed |-> 0, call |-> NoCall]

\* Reading a property of this.outletState: a TypeError when it is undefined.
IsUndefined(state) == state = NoData

\* The record of a handler call: it ran into the TypeError before it got to
\* its callback, or it called back once with the value.
HandlerCall(handler, value) ==
    IF IsUndefined(outlet.state)
    THEN [n |-> outlet.call.n + 1, handler |-> handler, raised |-> "TypeError",
          callbacks |-> 0, value |-> <<>>]
    ELSE [n |-> outlet.call.n + 1, handler |-> handler, raised |-> "none",
          callbacks |-> 1, value |-> value]

\* The setInterval callback: getDeviceReport() starts a fetch of /report.
switchPoll ==
    /\ outlet.polls < MaxPolls
    /\ outlet' = [outlet EXCEPT !.polls = @ + 1, !.inflight = @ + 1]
    /\ UNCHANGED <<sensor, pir, startVars, registryVars, restoreVars, flows,
                   discoveryVars, breakerVars, exec, requests>>

\* The fetch ends and the .then() callback runs: it stores whatever fetch
\* gave as the outlet state, then reads the state to push it to the
\* characteristics; the TypeError of reading undefined goes to .catch().
switchReport(o) ==
    /\ outlet.inflight > 0
    /\ outlet' = [outlet EXCEPT
                     !.inflight = @ - 1,
                     !.state = FetchResult(o, TRUE),
                     !.pushed = IF IsUndefined(FetchResult(o, TRUE))
                                THEN @ ELSE @ + 1]
    /\ UNCHANGED <<sensor, pir, startVars, registryVars, restoreVars, flows,
                   discoveryVars, breakerVars, exec, requests>>

getOn ==
    /\ outlet.call.n < MaxCalls
    /\ outlet' = [outlet EXCEPT
                     !.call = HandlerCall("getOn",
                                  IF IsUndefined(outlet.state) THEN <<>>
                                  ELSE <<outlet.state.relay>>)]
    /\ UNCHANGED <<sensor, pir, startVars, registryVars, restoreVars, flows,
                   discoveryVars, breakerVars, exec, requests>>

getOutletInUse ==
    /\ outlet.call.n < MaxCalls
    /\ outlet' = [outlet EXCEPT
                     !.call = HandlerCall("getOutletInUse",
                                  IF IsUndefined(outlet.state) THEN <<>>
                                  ELSE <<outlet.state.power > 0>>)]
    /\ UNCHANGED <<sensor, pir, startVars, registryVars, restoreVars, flows,
                   discoveryVars, breakerVars, exec, requests>>

getTemperature ==
    /\ outlet.call.n < MaxCalls
    /\ outlet' = [outlet EXCEPT
                     !.call = HandlerCall("getTemperature",
                                  IF IsUndefined(outlet.state) THEN <<>>
                                  ELSE <<outlet.state.temperature>>)]
    /\ UNCHANGED <<sensor, pir, startVars, registryVars, restoreVars, flows,
                   discoveryVars, breakerVars, exec, requests>>

\* setOn: `this.outletState.relay = value` comes first; setDeviceState sends
\* the relay request and does not wait for it.
setOn(value) ==
    /\ outlet.call.n < MaxCalls
    /\ outlet' = [outlet EXCEPT
                     !.call = HandlerCall("setOn", <<>>),
                     !.state = IF IsUndefined(@) THEN @
                               ELSE [@ EXCEPT !.relay = value]]
    /\ UNCHANGED <<sensor, pir, startVars, registryVars, restoreVars, flows,
                   discoveryVars, breakerVars, exec, requests>>

NextSwitch ==
    \/ switchPoll
    \/ \E o \in SwitchOutcomes : switchReport(o)
    \/ getOn
    \/ getOutletInUse
    \/ getTemperature
    \/ \E value \in BOOLEAN : setOn(value)

-----------------------------------------------------------------------------
(* The PIR accessory: its motion poller and the mutex around its fetch *)

\* Polls of the sensor started per behaviour
MaxSensorPolls == 3

\* private pirState = { motion: false, temperature: 0, light: 0 }
InitialPirState == [motion |-> FALSE, temperature |-> 0, light |-> JsNum(0)]

\* Bodies of GET /api/v1/sensors; older firmware sends no light value.
SensorReports ==
    { [ok |-> TRUE, motion |-> m, temperature |-> t, light |-> l] :
          m \in BOOLEAN, t \in {20, 21}, l \in {JsUndef, JsNum(5)} }

\* How the axios request for the sensors ends
SensorOutcomes ==
    { [kind |-> "response", status |-> 200, data |-> r] : r \in SensorReports }
    \cup { [kind |-> k, status |-> 0, data |-> NoData] : k \in AxiosFailures }

NoUpdates == [motion |-> 0, temperature |-> 0, light |-> 0]

\* `last` is the value the latest .then() callback was given as `report`.
NewSensor == [state |-> InitialPirState, polls |-> <<>>, locked |-> FALSE,
              updates |-> NoUpdates, errors |-> 0,
              last |-> [n |-> 0, report |-> NoData]]

\* `if (report)`: undefined is what fetch gives when the request failed.
HasReport(report) == report # NoData

AlwaysDiffers(cached, isMotion) == TRUE

\* `this.pirState.motion !== isMotion`
MotionDiffers(cached, isMotion) == cached # isMotion

ReleasesOnResponse(kind) == kind = "response"

\* `try { return await fetch } finally { release(); }`
ReleasesAfter(kind) == TRUE

\* The polls waiting in mutex.acquire(), and the one that is served next.
Waiting(polls) == { j \in DOMAIN polls : polls[j] = "waiting" }
NextWaiting(polls) ==
    CHOOSE j \in Waiting(polls) : \A k \in Waiting(polls) : j <= k

\* The setInterval callback: getDeviceReport() takes the mutex and starts
\* the fetch, or waits for the mutex while another poll holds it.
pirPoll ==
    /\ Len(sensor.polls) < MaxSensorPolls
    /\ sensor' = [sensor EXCEPT
                     !.polls = Append(@, IF sensor.locked THEN "waiting"
                                         ELSE "fetching"),
                     !.locked = TRUE]
    /\ UNCHANGED <<outlet, pir, startVars, registryVars, restoreVars, flows,
                   discoveryVars, breakerVars, exec, requests>>

\* The fetch of poll i ends: the mutex goes to the poll that waited longest,
\* and the .then() callback takes the report into the cache and pushes the
\* characteristics, or throws DeviceNotReachableError for .catch() to log.
pirReport(i, o) ==
    /\ i \in DOMAIN sensor.polls
    /\ sensor.polls[i] = "fetching"
    /\ LET report == FetchResult(o, TRUE)
           ended == [sensor.polls EXCEPT ![i] = "done"]
           released == ReleasesAfter(o.kind)
           handed == released /\ Waiting(ended) # {}
           changed == HasReport(report)
                      /\ MotionDiffers(sensor.state.motion, report.motion)
       IN  sensor' = [sensor EXCEPT
               !.polls = IF handed
                         THEN [ended EXCEPT ![NextWaiting(ended)] = "fetching"]
                         ELSE ended,
               !.locked = IF released THEN handed ELSE TRUE,
               !.state = IF HasReport(report)
                         THEN [motion |-> IF changed THEN report.motion
                                          ELSE @.motion,
                               temperature |-> report.temperature,
                               light |-> Coalesce(report.light, JsNum(0))]
                         ELSE @,
               !.updates = IF HasReport(report)
                           THEN [motion |-> IF changed THEN @.motion + 1
                                            ELSE @.motion,
                                 temperature |-> @.temperature + 1,
                                 light |-> @.light + 1]
                           ELSE @,
               !.errors = IF HasReport(report) THEN @ ELSE @ + 1,
               !.last = [n |-> @.n + 1, report |-> report]]
    /\ UNCHANGED <<outlet, pir, startVars, registryVars, restoreVars, flows,
                   discoveryVars, breakerVars, exec, requests>>

NextPir ==
    \/ pirPoll
    \/ \E i \in 1..MaxSensorPolls : \E o \in SensorOutcomes : pirReport(i, o)

-----------------------------------------------------------------------------

NoRestore == [UUID |-> <<>>, context |-> [hasDevice |-> FALSE,
                                          accessoryClass |-> JsUndef],
              outcome |-> ""]
NoDatagram == [n |-> 0, msg |-> <<>>, address |-> "", outcome |-> "",
               raised |-> "none"]
NoExec == [n |-> 0, st |-> "idle", retries |-> 0, invoked |-> 0,
           succeeded |-> 0, rejected |-> 0, opened |-> 0, result |-> ""]

Init ==
    /\ config \in [devices : BOOLEAN, autoDiscover : BOOLEAN]
    /\ launched = FALSE
    /\ adding = "idle"
    /\ socket = "none"
    /\ requestServer = "none"
    /\ accessories = <<>>
    /\ restored = {}
    /\ lastRestore = NoRestore
    /\ registered = <<>>
    /\ constructed = <<>>
    /\ identified = <<>>
    /\ updateInfo = <<>>
    /\ flows = <<>>
    /\ discovered = {}
    /\ handled = {}
    /\ attempts = <<>>
    /\ lastDgram = NoDatagram
    /\ cbState = "closed"
    /\ cbFailures = 0
    /\ cbElapsed = FALSE
    /\ exec = NoExec
    /\ requests = <<>>
    /\ pir = [a \in PirAccessories |-> NoCallback]
    /\ outlet = NewOutlet
    /\ sensor = NewSensor

\* The descriptors followed with the registry: every one but the switch
\* that reports its type as the string "WS2".
RegAnswers ==
    { a \in DingzAnswers \cup MyStromAnswers :
          a.mac = MacOther => a.type # JsStr("WS2") } \cup {NoData}

NextReg ==
    \/ \E accessory \in PersistedAccessories : configureAccessory(accessory)
    \/ didFinishLaunching
    \/ \E device \in ConfigDevices : addDevices(device)
    \/ addDevicesDone
    \/ \E i \in 1..MaxFlows :
           /\ fetch(i)
           /\ flows'[i].data \in RegAnswers
           /\ flows'[i].axios \in {"response", "ECONNREFUSED"}
    \/ \E i \in 1..MaxFlows : thenCallback(i)

\* Registration of the configured devices, auto-discovery switched off.
InitReg == Init /\ ~ config.autoDiscover

SpecReg == InitReg /\ [][NextReg]_vars

\* The configured devices with every way their requests can end, nothing
\* restored from the cache.
InitFetch == Init /\ config.devices /\ ~ config.autoDiscover

NextFetch ==
    \/ didFinishLaunching
    \/ \E device \in ConfigDevices : addDevices(device)
    \/ addDevicesDone
    \/ \E i \in 1..MaxFlows : fetch(i)
    \/ \E i \in 1..MaxFlows : thenCallback(i)

SpecFetch == InitFetch /\ [][NextFetch]_vars

-----------------------------------------------------------------------------
(* Device discovery: datagramMessageHandler *)

HexDigits == <<"0", "1", "2", "3", "4", "5", "6", "7", "8", "9",
               "a", "b", "c", "d", "e", "f">>

\* (b & 0xff).toString(16), left-padded with "0" to two characters
ByteHex(b) ==
    LET v == b % 256
        hex == IF v < 16 THEN <<HexDigits[v + 1]>>
               ELSE <<HexDigits[(v \div 16) + 1], HexDigits[(v % 16) + 1]>>
    IN  IF Len(hex) = 1 THEN <<"0">> \o hex ELSE hex

RECURSIVE HexConcat(_)
HexConcat(arr) ==
    IF arr = <<>> THEN <<>> ELSE ByteHex(Head(arr)) \o HexConcat(Tail(arr))

byteToHexString(uint8arr) == toUpperCase(HexConcat(uint8arr))

\* uint8arr.subarray(begin, end): elements begin .. end-1, counted from 0
subarray(arr, begin, end) ==
    SubSeq(arr, begin + 1, IF end < Len(arr) THEN end ELSE Len(arr))

\* The bytes the handler decodes as the MAC.
MacOfDatagram(msg) == byteToHexString(subarray(msg, 0, 5))

\* `msg.length !== 8`
RejectsShorterOnly(msg) == Len(msg) < 8
BadLength(msg) == Len(msg) # 8

\* DeviceTypes
MYSTROM_SWITCH_CHV1 == 101
MYSTROM_BULB == 102
MYSTROM_BUTTON_PLUS == 103
MYSTROM_BUTTON == 104
MYSTROM_LEDSTRIP == 105
MYSTROM_SWITCH_CHV2 == 106
MYSTROM_SWITCH_EU == 107
DINGZ == 108

\* Routing that ignores the type code.
RouteToSwitch(t, address) ==
    <<addMyStromSwitchDevice(address, JsStr("Auto-Discovered MyStromSwitch"),
                             GlobalToken)>>

\* The switch over the type code: the entry point call, <<>> for none.
RouteOf(t, address) ==
    CASE t = MYSTROM_LEDSTRIP ->
             <<addMyStromLightbulbDevice(
                   address, JsStr("Auto-Discovered MyStrom LED Strip"),
                   GlobalToken)>>
      [] t = MYSTROM_BULB ->
             <<addMyStromLightbulbDevice(
                   address, JsStr("Auto-Discovered MyStrom Lightbulb"),
                   GlobalToken)>>
      [] t \in {MYSTROM_SWITCH_CHV1, MYSTROM_SWITCH_CHV2, MYSTROM_SWITCH_EU} ->
             <<addMyStromSwitchDevice(
                   address, JsStr("Auto-Discovered MyStromSwitch"),
                   GlobalToken)>>
      [] t = DINGZ ->
             <<addDingzDevice(address, JsStr("Auto-Discovered Dingz"),
                              GlobalToken)>>
      [] OTHER -> <<>>

Unsupported(t) == t \in {MYSTROM_BUTTON_PLUS, MYSTROM_BUTTON}

\* `this.discovered.set(mac, remoteInfo)`
ForgetsMac(mac) == discovered
RecordMac(mac) == discovered \cup {mac}

\* A catch clause that rethrows whatever it caught.
RethrowsAll(e) == FALSE

\* The catch clause: only DeviceNotImplementedError is swallowed.
Swallowed(e) == e = "DeviceNotImplementedError"

\* The six MAC bytes of a datagram, as the sender wrote them.
SenderMac(msg) == SubSeq(msg, 1, 6)

BaseMac == <<170, 187, 204, 221, 238, 255>>
DatagramMacs ==
    { BaseMac,
      [BaseMac EXCEPT ![6] = 15],     \* differs in byte 5 only
      [BaseMac EXCEPT ![1] = 10] }    \* differs in byte 0 only

TypeCodes == 101..109

AddressOfMac(mac) == IF mac = BaseMac THEN "10.0.0.1" ELSE "10.0.0.2"

Datagrams ==
    { [msg |-> mac \o <<t, 0>>, address |-> AddressOfMac(mac)] :
          mac \in DatagramMacs, t \in TypeCodes }
    \cup { [msg |-> <<>>, address |-> "10.0.0.1"],
           [msg |-> BaseMac \o <<MYSTROM_SWITCH_CHV2>>, address |-> "10.0.0.1"],
           [msg |-> BaseMac \o <<MYSTROM_SWITCH_CHV2, 0, 0>>,
            address |-> "10.0.0.1"] }

\* A socket that goes on delivering datagrams after close().
ReceivingOnceCreated == socket \in {"bound", "closed"}

\* The 'message' listener runs for datagrams that arrive on the bound socket.
Receiving == socket = "bound"

datagramMessageHandler(d) ==
    /\ Receiving
    /\ lastDgram.n < MaxDatagrams
    /\ Len(flows) < MaxFlows
    /\ cbState = "closed"
    /\ LET msg == d.msg
           Result(outcome, thrown) ==
               [n |-> lastDgram.n + 1, msg |-> msg, address |-> d.address,
                outcome |-> outcome,
                raised |-> IF thrown = "none" \/ Swallowed(thrown)
                           THEN "none" ELSE thrown]
       IN  IF BadLength(msg)
           THEN /\ lastDgram' = Result("badLength", "DeviceNotImplementedError")
                /\ UNCHANGED <<discovered, handled, attempts, flows, cbFailures>>
           ELSE LET t == msg[7]
                    mac == MacOfDatagram(msg)
                    call == RouteOf(t, d.address)
                IN  /\ handled' = handled \cup {SenderMac(msg)}
                    /\ IF mac \in discovered
                       THEN /\ lastDgram' = Result("duplicate", "none")
                            /\ UNCHANGED <<discovered, attempts, flows,
                                           cbFailures>>
                       ELSE IF Unsupported(t)
                       THEN /\ lastDgram' = Result("unsupported",
                                                   "DeviceNotImplementedError")
                            /\ UNCHANGED <<discovered, attempts, flows,
                                           cbFailures>>
                       ELSE /\ flows' = flows \o call
                            /\ attempts' = IF call # <<>>
                                           THEN Inc(attempts, SenderMac(msg))
                                           ELSE attempts
                            /\ cbFailures' = BreakerCount(call)
                            /\ discovered' = RecordMac(mac)
                            /\ lastDgram' = Result(IF call # <<>> THEN "started"
                                                   ELSE "unknown", "none")
    /\ UNCHANGED <<outlet, sensor, pir, startVars, registryVars, restoreVars, cbState, cbElapsed,
                   exec, requests>>

\* The setTimeout callback of setupDeviceDiscovery, 600000 ms after the bind:
\* discoverySocket.close().
discoveryTimeout ==
    /\ socket = "bound"
    /\ socket' = "closed"
    /\ UNCHANGED <<outlet, sensor, pir, config, launched, adding, requestServer, registryVars,
                   restoreVars, flows, discoveryVars, breakerVars, exec,
                   requests>>

\* Discovery with the registration flows left in flight.
InitDisc == Init /\ config.autoDiscover /\ ~ config.devices

NextDisc ==
    \/ didFinishLaunching
    \/ \E d \in Datagrams : datagramMessageHandler(d)
    \/ discoveryTimeout

SpecDisc == InitDisc /\ [][NextDisc]_vars

-----------------------------------------------------------------------------
(* retryWithBreaker = Policy.wrap(retry, circuitBreaker), run on an      *)
(* operation that may fail                                                *)

\* new ConsecutiveBreaker(5)
LaterThreshold == 5 + 1
BreakerThreshold == 5

\* retry: maxAttempts
MaxAttempts == 20

\* After a failed attempt: retry while the budget lasts, else give up and
\* hand the last error to the caller of execute.
AfterFailure(e, error) ==
    IF e.retries < MaxAttempts
    THEN [e EXCEPT !.st = "attempt", !.retries = @ + 1]
    ELSE [e EXCEPT !.st = "done", !.result = error]

BreakerMadePerCall == TRUE

\* circuitBreaker is a constant of the module, made once when it loads:
\* every execute call of every call site goes through the same breaker.
BreakerPerCall == FALSE

\* retryWithBreaker.execute(op): a new call, once the previous one is over.
policyExecute ==
    /\ exec.st \in {"idle", "done"}
    /\ exec.n < MaxExecs
    /\ exec' = [exec EXCEPT !.n = @ + 1, !.st = "attempt", !.retries = 0,
                            !.result = ""]
    /\ IF BreakerPerCall
       THEN cbState' = "closed" /\ cbFailures' = 0 /\ cbElapsed' = FALSE
       ELSE UNCHANGED breakerVars
    /\ UNCHANGED <<outlet, sensor, pir, startVars, registryVars, restoreVars, flows, discoveryVars,
                   requests>>

\* One attempt of the retry policy enters the circuit breaker.
breakerExecute ==
    /\ exec.st = "attempt"
    /\ IF cbState = "open" /\ ~ cbElapsed
       THEN \* rejected without invoking the operation
            /\ exec' = AfterFailure([exec EXCEPT !.rejected = @ + 1],
                                    "BrokenCircuitError")
            /\ UNCHANGED breakerVars
       ELSE /\ exec' = [exec EXCEPT !.st = "calling", !.invoked = @ + 1]
            /\ cbState' = IF cbState = "open" THEN "halfOpen" ELSE cbState
            /\ UNCHANGED <<cbFailures, cbElapsed>>
    /\ UNCHANGED <<outlet, sensor, pir, startVars, registryVars, restoreVars, flows, discoveryVars,
                   requests>>

\* The operation settles and the breaker records the outcome.
opSettles(ok) ==
    /\ exec.st = "calling"
    /\ IF ok
       THEN /\ exec' = [exec EXCEPT !.st = "done", !.result = "value",
                                    !.succeeded = @ + 1]
            /\ cbFailures' = 0
            /\ cbState' = "closed"
            /\ UNCHANGED cbElapsed
       ELSE LET opens == cbState = "halfOpen"
                         \/ cbFailures + 1 >= BreakerThreshold
            IN  /\ cbFailures' = cbFailures + 1
                /\ cbState' = IF opens THEN "open" ELSE cbState
                /\ cbElapsed' = IF opens THEN FALSE ELSE cbElapsed
                /\ exec' = AfterFailure(
                               [exec EXCEPT !.opened = IF opens THEN @ + 1
                                                       ELSE @],
                               "OperationError")
    /\ UNCHANGED <<outlet, sensor, pir, startVars, registryVars, restoreVars, flows, discoveryVars,
                   requests>>

\* The breaker's halfOpenAfter window (10 s) passes.
breakerWindowElapses ==
    /\ cbState = "open"
    /\ ~ cbElapsed
    /\ cbElapsed' = TRUE
    /\ UNCHANGED <<outlet, sensor, pir, startVars, registryVars, restoreVars, flows, discoveryVars,
                   cbState, cbFailures, exec, requests>>

NextPolicy ==
    \/ policyExecute
    \/ breakerExecute
    \/ \E ok \in BOOLEAN : opSettles(ok)
    \/ breakerWindowElapses

\* The policy on its own: nothing configured, the platform never launched.
InitPolicy == Init /\ ~ config.devices /\ ~ config.autoDiscover

SpecPolicy == InitPolicy /\ [][NextPolicy]_vars

-----------------------------------------------------------------------------
(* The callback server: handleRequest *)

Absent == [present |-> FALSE, value |-> ""]
Param(v) == [present |-> TRUE, value |-> v]

\* The query string, by parameter name: absent, present and empty, or set.
Queries ==
    [ mac : {Absent, Param(""), Param("AABBCCDDEEFF")},
      button : {Absent, Param(""), Param("2")},
      action : {Absent, Param(""), Param("3")} ]

FullQuery == [mac |-> Param("AABBCCDDEEFF"), button |-> Param("2"),
              action |-> Param("3")]

\* Request targets (the path part of request.url) and Host headers.
RootPath == <<"/">>
TwoSlashes == <<"/", "/">>
BridgeHost == <<"h", ":", "1">>
SpacedHost == <<"h", " ", "1">>

Requests ==
    { [path |-> RootPath, host |-> BridgeHost, query |-> q] : q \in Queries }
    \cup { [path |-> TwoSlashes, host |-> BridgeHost, query |-> FullQuery],
           [path |-> RootPath, host |-> SpacedHost, query |-> FullQuery] }

\* new URL(request.url, `http://${request.headers.host}`) throws a TypeError
\* when the base has no valid host or the target names an empty authority.
ValidHost(host) == host # <<>> /\ \A k \in DOMAIN host : host[k] # " "
EmptyAuthority(path) ==
    /\ Len(path) >= 2
    /\ path[1] = "/"
    /\ path[2] = "/"
    /\ (Len(path) = 2 \/ path[3] = "/")
UrlParses(r) == ValidHost(r.host) /\ ~ EmptyAuthority(r.path)

\* searchParams.has / searchParams.get
has(query, name) ==
    CASE name = "mac" -> query.mac.present
      [] name = "button" -> query.button.present
      [] name = "action" -> query.action.present

get(query, name) ==
    CASE name = "mac" -> query.mac.value
      [] name = "button" -> query.button.value
      [] name = "action" -> query.action.value

\* a || b on strings
OrElse(a, b) == IF a = "" THEN b ELSE a

NoEvent == <<>>

\* A request whose end() callback is queued without the head being written.
UnansweredRequest(r) ==
    [request |-> r, st |-> "ended", status |-> 0, body |-> "",
     threw |-> "none", events |-> 0, event |-> NoEvent]

\* response.writeHead(204); response.end(callback): the response is complete,
\* the callback is queued and has not run.
AnsweredRequest(r) ==
    [request |-> r, st |-> "ended", status |-> 204, body |-> "",
     threw |-> "none", events |-> 0, event |-> NoEvent]

handleRequest(r) ==
    /\ requestServer = "listening"
    /\ Len(requests) < MaxRequests
    /\ requests' = Append(requests,
           IF UrlParses(r)
           THEN AnsweredRequest(r)
           ELSE [request |-> r, st |-> "done", status |-> 0, body |-> "",
                 threw |-> "TypeError", events |-> 0, event |-> NoEvent])
    /\ UNCHANGED <<outlet, sensor, pir, startVars, registryVars, restoreVars, flows, discoveryVars,
                   breakerVars, exec>>

\* The callback given to response.end(), run once the response is finished.
endCallback(i) ==
    /\ i \in DOMAIN requests
    /\ requests[i].st = "ended"
    /\ LET p == requests[i].request.query IN
       IF has(p, "mac") /\ has(p, "action") /\ has(p, "button")
       THEN requests' = [requests EXCEPT
                ![i].st = "done",
                ![i].events = @ + 1,
                ![i].event = [mac |-> OrElse(get(p, "mac"), ""),
                              button |-> OrElse(get(p, "button"), ""),
                              action |-> OrElse(get(p, "action"), "1")]]
       ELSE requests' = [requests EXCEPT ![i].st = "done"]
    /\ UNCHANGED <<outlet, sensor, pir, startVars, registryVars, restoreVars, flows, discoveryVars,
                   breakerVars, exec>>

\* The callback server alone: nothing else configured.
InitHttp == Init /\ ~ config.devices /\ ~ config.autoDiscover

NextHttp ==
    \/ didFinishLaunching
    \/ \E r \in Requests : handleRequest(r)
    \/ \E i \in 1..MaxRequests : endCallback(i)

SpecHttp == InitHttp /\ [][NextHttp]_vars

-----------------------------------------------------------------------------
(* The platform as a whole: restore, launch, configured devices, discovery *)
(* and the callback server side by side, on a small set of inputs          *)

PlatformPersisted ==
    { a \in PersistedAccessories :
          a.context.hasDevice
          /\ a.context.accessoryClass = JsStr("DingzDaAccessory") }

PlatformDevices == { d \in ConfigDevices : d.type \in {"Dingz", "myStromPIR"} }

\* Broadcasts of two devices: a button and a controller.
PlatformDatagrams ==
    { d \in Datagrams :
          \/ d.msg = BaseMac \o <<MYSTROM_BUTTON, 0>>
          \/ d.msg = [BaseMac EXCEPT ![1] = 10] \o <<DINGZ, 0>> }

\* A device that is unreachable, one that answers, one of the wrong type.
PlatformAnswers ==
    { NoData,
      Answer(MacLower, JsStr("dingz"), JsUndef, JsStr("DZ1F-4CH")),
      Answer(MacLower, JsStr("WS2"), JsUndef, JsUndef) }

PlatformRequests ==
    { r \in Requests :
          r.query = FullQuery /\ r.host = BridgeHost /\ r.path = RootPath }

NextPlatform ==
    \/ \E accessory \in PlatformPersisted : configureAccessory(accessory)
    \/ didFinishLaunching
    \/ \E device \in PlatformDevices : addDevices(device)
    \/ addDevicesDone
    \/ \E i \in 1..MaxFlows :
           /\ fetch(i)
           /\ flows'[i].data \in PlatformAnswers
           /\ flows'[i].axios \in {"response", "ECONNREFUSED"}
    \/ \E i \in 1..MaxFlows : thenCallback(i)
    \/ \E d \in PlatformDatagrams : datagramMessageHandler(d)
    \/ \E r \in PlatformRequests : handleRequest(r)
    \/ \E i \in 1..MaxRequests : endCallback(i)

SpecPlatform == Init /\ [][NextPlatform]_vars

\* The poller of a PIR accessory alone.
InitPir == Init /\ ~ config.devices /\ ~ config.autoDiscover

SpecPir == InitPir /\ [][NextPir]_vars

\* The same with every started fetch ending at some time: axios settles
\* its promise when the device answers, refuses or drops the connection.
FairSpecPir ==
    SpecPir
    /\ WF_vars(\E i \in 1..MaxSensorPolls : \E o \in SensorOutcomes :
                   pirReport(i, o))

\* The switch accessory alone.
InitSwitch == Init /\ ~ config.devices /\ ~ config.autoDiscover

SpecSwitch == InitSwitch /\ [][NextSwitch]_vars

\* The PIR accessories alone: nothing else configured.
InitSlow == Init /\ ~ config.devices /\ ~ config.autoDiscover

SpecSlow == InitSlow /\ [][NextSlow]_vars

-----------------------------------------------------------------------------
(* Claims on the registration flows *)

DoneFlows == { i \in DOMAIN flows : flows[i].st = "done" }
FlowsFor(u) == { i \in DoneFlows : flows[i].uuid = u }
RestoredOk(u) == u \in restored /\ lastRestore.UUID = u
                 /\ lastRestore.outcome = "restored"

\* C1: however many registration flows complete for one identity, in any
\* interleaving of their fetches and callbacks, the identity has exactly one
\* handle, registerPlatformAccessories was called at most once for it and
\* at most one flow took the 'new' path; every other one took the
\* 'already present' path.
C1_RegisteredOnce ==
    \A u \in { flows[i].uuid : i \in DoneFlows } \ {<<>>} :
        /\ Count(registered, u) <= 1
        /\ Count(constructed, u) = 1
        /\ u \in DOMAIN accessories
        /\ Cardinality({ i \in FlowsFor(u) : flows[i].path = "new" })
               = Count(registered, u)
        /\ Count(registered, u) = IF RestoredOk(u) THEN 0 ELSE 1
        /\ \A i \in FlowsFor(u) : flows[i].path \in {"new", "already"}

C1_Witness ==
    \E i, j \in DoneFlows :
        /\ i # j
        /\ flows[i].ep = flows[j].ep
        /\ flows[i].uuid = flows[j].uuid
        /\ flows[i].path = "already"
        /\ flows[j].path = "new"
        /\ Count(registered, flows[i].uuid) = 1

\* C2: an accessory replayed through configureAccessory is never handed to
\* registerPlatformAccessories afterwards, whatever its context holds.
C2_RestoredNeverRegistered ==
    \A u \in restored : Count(registered, u) = 0

\* C3: a flow whose descriptor has a type outside its family's accepted set
\* gives InvalidTypeError to the caller of the entry point and leaves the
\* registry and the bridge registration as they were.
C3_InvalidTypeReachesCaller ==
    [][\A i \in DOMAIN flows :
          (/\ flows[i].st = "settled"
           /\ flows[i].data.ok
           /\ ~ Accepts(flows[i].ep, flows[i].data.type)
           /\ flows'[i].st = "done")
          => (/\ flows'[i].returned = "InvalidTypeError"
              /\ accessories' = accessories
              /\ registered' = registered)]_vars

\* C4: a flow whose resolver yields no data fails with
\* DeviceNotReachableError at the caller of the entry point, never success.
C4_NoDataIsNotReachable ==
    \A i \in DoneFlows :
        flows[i].path = "nodata" => flows[i].returned = "DeviceNotReachableError"

\* The flow whose .then() callback runs in this step takes the
\* 'already initialized' branch.
TakesAlready(i) ==
    /\ i \in DOMAIN flows
    /\ flows[i].st = "settled"
    /\ flows'[i].st = "done"
    /\ flows'[i].path = "already"

\* C12: whichever entry point a flow came through, when the identity of its
\* device is already in the registry the callback calls identify() on the
\* existing handle, emits UPDATE_INFO with it, and constructs and registers
\* nothing.
C12_AlreadyIdentifiesAndUpdates ==
    [][\A i \in DOMAIN flows :
          TakesAlready(i) =>
              LET u == flows'[i].uuid IN
              /\ u \in DOMAIN accessories
              /\ Count(identified', u) = Count(identified, u) + 1
              /\ Count(updateInfo', u) = Count(updateInfo, u) + 1
              /\ UNCHANGED <<accessories, constructed, registered>>]_vars

Restoring == restored' # restored

\* C13: configureAccessory returns normally for every persisted accessory.
\* With a recognized accessoryClass it adds exactly one handle under the
\* accessory's UUID; with no device record, no accessoryClass or an
\* unrecognized one it leaves the registry as it was.
C13_ConfigureNeverRaises ==
    [][Restoring =>
          LET c == lastRestore'.context
              u == lastRestore'.UUID IN
          /\ lastRestore'.outcome # "TypeError"
          /\ IF c.hasDevice /\ c.accessoryClass # JsUndef
                /\ KnownAccessoryClass(c.accessoryClass)
             THEN /\ lastRestore'.outcome = "restored"
                  /\ DOMAIN accessories' = DOMAIN accessories \cup {u}
                  /\ Count(constructed', u) = Count(constructed, u) + 1
                  /\ \A k \in DOMAIN accessories : accessories'[k] = accessories[k]
             ELSE /\ lastRestore'.outcome = "skipped"
                  /\ UNCHANGED <<accessories, constructed>>]_vars

\* C14: every identity in the registry has exactly one handle, the only one
\* ever constructed for it, and a step of any operation leaves every entry
\* of the registry in place with the handle it had.
C14_RegistryOnlyGrows ==
    /\ [](\A u \in DOMAIN accessories : Count(constructed, u) = 1)
    /\ [][\A u \in DOMAIN accessories :
             /\ u \in DOMAIN accessories'
             /\ accessories'[u] = accessories[u]]_vars

C14_Witness ==
    \E i \in DoneFlows :
        /\ flows[i].path = "already"
        /\ RestoredOk(flows[i].uuid)
        /\ accessories[flows[i].uuid] =
               CachedDevice(MacUpper, lastRestore.context.accessoryClass.s)
        /\ flows[i].ep = "switch"
        /\ lastRestore.context.accessoryClass = JsStr("DingzDaAccessory")

\* C17: no type value, number, string or missing, passes both the switch
\* check and the bulb check; and a bulb flow whose descriptor has type 107
\* throws InvalidTypeError in its callback and constructs and registers
\* nothing.
C17_FamiliesExclusive ==
    /\ [](\A t \in MyStromTypes : ~ (IsSwitchType(t) /\ IsBulbType(t)))
    /\ [][\A i \in DOMAIN flows :
             (/\ flows[i].st = "settled"
              /\ flows[i].data.ok
              /\ flows'[i].st = "done")
             => LET t == flows[i].data.type IN
                /\ (flows[i].ep = "switch" /\ flows'[i].path # "invalid")
                       => ~ IsBulbType(t)
                /\ (flows[i].ep = "bulb" /\ flows'[i].path # "invalid")
                       => ~ IsSwitchType(t)
                /\ (flows[i].ep = "bulb" /\ t = JsNum(107))
                       => (/\ flows'[i].promise = "InvalidTypeError"
                           /\ flows'[i].path = "invalid"
                           /\ UNCHANGED <<accessories, registered,
                                          constructed>>)]_vars

C17_Witness ==
    \E i \in DoneFlows :
        /\ flows[i].ep = "bulb"
        /\ flows[i].promise = "InvalidTypeError"
        /\ flows[i].wrongType = JsNum(107)
        /\ DOMAIN accessories = {}
        /\ DOMAIN registered = {}

\* C18: a controller flow whose descriptor mapping has the one key M and
\* type "dingz", for an identity not yet in the registry, adds exactly one
\* entry, under uuid.generate(uppercase(M)); its device record has the MAC
\* in upper case, the address and name the entry point was called with, and
\* as model the descriptor's puck_hw_model, or 'DingZ' when it has none.
C18_NewDingzEntry ==
    [][\A i \in DOMAIN flows :
          LET f == flows[i]
              M == toUpperCase(f.data.mac)
              u == uuid_generate(M) IN
          (/\ f.st = "settled"
           /\ f.ep = "dingz"
           /\ f.data.ok
           /\ f.data.type = JsStr("dingz")
           /\ u \notin DOMAIN accessories
           /\ flows'[i].st = "done")
          => (/\ DOMAIN accessories' = DOMAIN accessories \cup {u}
              /\ \A k \in DOMAIN accessories : accessories'[k] = accessories[k]
              /\ accessories'[u].mac = M
              /\ accessories'[u].address = f.address
              /\ accessories'[u].name = f.name
              /\ accessories'[u].model =
                     IF f.data.puck_hw_model = JsUndef
                     THEN JsStr("DingZ") ELSE f.data.puck_hw_model
              /\ Count(registered', u) = 1
              /\ flows'[i].uuid = u)]_vars

C18_Witness ==
    \E i \in DoneFlows :
        LET u == uuid_generate(MacUpper) IN
        /\ flows[i].ep = "dingz"
        /\ flows[i].path = "new"
        /\ flows[i].uuid = u
        /\ DOMAIN accessories = {u}
        /\ accessories[u].mac = MacUpper
        /\ accessories[u].model = JsStr("DZ1F-4CH")
        /\ accessories[u].name = JsStr("Hall")
        /\ accessories[u].address = "10.0.0.1"
        /\ Count(registered, u) = 1

\* One MAC written in three letter cases, and a different MAC.
MacMixed == [MacLower EXCEPT ![1] = "A", ![12] = "F"]
CaseVariants == {MacLower, MacUpper, MacMixed}

\* Keys are equal exactly when the MACs are equal after uppercasing.
KeysFollowUpperMac ==
    \A m1, m2 \in CaseVariants \cup {MacOther} :
        (toUpperCase(m1) = toUpperCase(m2))
        <=> (uuid_generate(toUpperCase(m1)) = uuid_generate(toUpperCase(m2)))

\* C19: the key of every registry entry is uuid.generate of its MAC in upper
\* case; a MAC looked up through getAccessoryByMac in any letter case gives
\* the handle registration stored for it; and MACs that differ after
\* uppercasing have different keys.
C19_KeyFromUpperMac ==
    /\ KeysFollowUpperMac
    /\ \A u \in DOMAIN accessories :
           u = uuid_generate(toUpperCase(accessories[u].mac))
    /\ \A m \in CaseVariants :
           getAccessoryByMac(m) = getAccessoryByMac(MacUpper)
    /\ \A i \in DoneFlows :
           flows[i].path \in {"new", "already"} =>
               LET h == accessories[flows[i].uuid] IN
               \A m \in CaseVariants \cup {MacOther} :
                   toUpperCase(m) = h.mac
                   => getAccessoryByMac(m) = h /\ h # NoAccessory

C19_Witness ==
    /\ DOMAIN accessories = {uuid_generate(MacUpper), uuid_generate(MacOther)}
    /\ getAccessoryByMac(MacLower) = accessories[uuid_generate(MacUpper)]
    /\ getAccessoryByMac(MacMixed) # getAccessoryByMac(MacOther)
    /\ \E i, j \in DoneFlows :
           /\ flows[i].ep = "switch"
           /\ flows[i].uuid = uuid_generate(MacUpper)
           /\ flows[j].uuid = uuid_generate(MacOther)

-----------------------------------------------------------------------------
(* Claims on device discovery *)

Handling == lastDgram'.n # lastDgram.n

C6_SixByteMac ==
    [][(/\ Handling
        /\ Len(lastDgram'.msg) = 8
        /\ RouteOf(lastDgram'.msg[7], lastDgram'.address) # <<>>
        /\ SenderMac(lastDgram'.msg) \notin handled)
       => (/\ Len(flows') = Len(flows) + 1
           /\ Count(attempts', SenderMac(lastDgram'.msg)) = 1)]_vars

\* C7: a datagram whose length is not 8 is dropped: nothing is raised to
\* the caller, no attempt is started, and the seen set and the registry stay
\* as they were.
C7_BadLengthDropped ==
    [][(Handling /\ Len(lastDgram'.msg) # 8)
       => (/\ lastDgram'.raised = "none"
           /\ lastDgram'.outcome = "badLength"
           /\ UNCHANGED <<flows, attempts, discovered, accessories,
                          registered>>)]_vars

C7_Witness ==
    /\ lastDgram.n > 0
    /\ Len(lastDgram.msg) > 8
    /\ lastDgram.outcome = "badLength"

\* The entry point a type code stands for.
FamilyOfCode(t) ==
    CASE t \in {101, 106, 107} -> "switch"
      [] t \in {102, 105} -> "bulb"
      [] t = 108 -> "dingz"
      [] OTHER -> "none"

\* The step appends one flow, started from the datagram just handled through
\* the entry point of its type code.
StartsOneFor(t) ==
    /\ Len(flows') = Len(flows) + 1
    /\ SubSeq(flows', 1, Len(flows)) = flows
    /\ LET f == flows'[Len(flows')] IN
       /\ f.ep = FamilyOfCode(t)
       /\ f.address = lastDgram'.address
       /\ f.token = GlobalToken
       /\ f.st = "fetching"
       /\ f.ep = "switch" => f.name = JsStr("Auto-Discovered MyStromSwitch")

C16_UnsupportedDropped ==
    [][(/\ Handling
        /\ Len(lastDgram'.msg) = 8
        /\ \/ lastDgram'.msg[7] \in {103, 104}
           \/ lastDgram'.msg[7] \notin 101..108)
       => (/\ lastDgram'.raised = "none"
           /\ lastDgram'.outcome \in {"unsupported", "unknown", "duplicate"}
           /\ UNCHANGED <<flows, attempts, registryVars>>)]_vars

C16_Witness ==
    /\ lastDgram.n = 2
    /\ lastDgram.outcome = "unsupported"
    /\ lastDgram.msg[7] = 104
    /\ lastDgram.raised = "none"
    /\ Len(flows) = 1

\* C20: the discovery socket goes from not created to bound to closed and
\* takes no other step; once it is closed it stays closed and no datagram
\* is handled: the seen set, the attempts and the flows stay as they were.
C20_DiscoveryStops ==
    /\ [](socket \in {"none", "bound", "closed"})
    /\ [](~ launched => socket = "none")
    /\ [][socket' # socket =>
             \/ socket = "none" /\ socket' = "bound"
             \/ socket = "bound" /\ socket' = "closed"]_vars
    /\ [][socket = "closed" =>
             /\ socket' = "closed"
             /\ ~ Handling
             /\ UNCHANGED <<discoveryVars, flows>>]_vars

C20_Witness ==
    /\ socket = "closed"
    /\ lastDgram.n = 1
    /\ lastDgram.outcome = "started"
    /\ Len(flows) = 1

-----------------------------------------------------------------------------
(* Claims on the composed policy *)

\* C8: while the operation has failed on every call, it is invoked at most
\* 5 times before the breaker opens, and an attempt made while the
\* breaker is open (inside its window) ends in a breaker-open failure
\* without invoking the operation.
C8_BreakerOpensAfterFive ==
    /\ [](exec.succeeded = 0 /\ exec.opened = 0 => exec.invoked <= 5)
    /\ [](exec.succeeded = 0 /\ exec.invoked >= 5 /\ exec.st # "calling"
             => exec.opened >= 1)
    /\ [][(exec.st = "attempt" /\ cbState = "open" /\ ~ cbElapsed
           /\ exec' # exec)
          => (/\ exec'.invoked = exec.invoked
              /\ exec'.rejected = exec.rejected + 1
              /\ exec'.st \in {"attempt", "done"}
              /\ exec'.st = "done" => exec'.result = "BrokenCircuitError")]_vars

C8_Witness ==
    /\ exec.succeeded = 0
    /\ exec.invoked = 5
    /\ exec.opened = 1
    /\ exec.rejected >= 1
    /\ cbState = "open"

-----------------------------------------------------------------------------
(* Claims on the callback server *)

AllThree(q) == q.mac.present /\ q.action.present /\ q.button.present

\* C9: a handled request whose query carries mac, action and button
\* publishes exactly one event with the parsed values (an empty action as
\* "1"); a request lacking any of the three publishes none.
C9_OneEventPerCompleteRequest ==
    \A i \in DOMAIN requests :
        requests[i].st = "done" =>
            LET q == requests[i].request.query IN
            IF AllThree(q)
            THEN /\ requests[i].events = 1
                 /\ requests[i].event =
                        [mac |-> q.mac.value, button |-> q.button.value,
                         action |-> IF q.action.value = "" THEN "1"
                                    ELSE q.action.value]
            ELSE requests[i].events = 0

\* C10: every inbound request is answered with status 204 and an empty
\* body, whatever its path and query.
C10_Always204 ==
    \A i \in DOMAIN requests :
        requests[i].status = 204 /\ requests[i].body = ""

EventsOf(reqs, i) == IF i \in DOMAIN reqs THEN reqs[i].events ELSE 0

\* C11: an event is emitted for a request only after its response has been
\* given status 204 and ended: the step that emits starts from a state in
\* which the response is complete, and no request has an event without a
\* 204 response.
C11_ResponseBeforeEvent ==
    /\ [](\A i \in DOMAIN requests :
             requests[i].events > 0 =>
                 requests[i].status = 204 /\ requests[i].body = "")
    /\ [][\A i \in DOMAIN requests' :
             EventsOf(requests', i) > EventsOf(requests, i)
             => (/\ i \in DOMAIN requests
                 /\ requests[i].st = "ended"
                 /\ requests[i].status = 204
                 /\ requests[i].events = 0)]_vars

C11_Witness ==
    \E i \in DOMAIN requests :
        /\ requests[i].st = "done"
        /\ requests[i].status = 204
        /\ requests[i].events = 1
        /\ requests[i].event.mac = "AABBCCDDEEFF"

-----------------------------------------------------------------------------
(* Claims on the platform as a whole *)

Failed(f) == f.st = "done" /\ f.path \in {"nodata", "invalid"}

\* The flow whose callback runs in this step ends in a failure.
FailsNow(i) ==
    /\ i \in DOMAIN flows
    /\ flows[i].st = "settled"
    /\ Failed(flows'[i])

\* C21: a registration that fails, its device unreachable or of the wrong
\* type, leaves every other flow, the addDevices loop, the discovery
\* session, the callback server and the breaker as they were; the breaker
\* never counts a failure and stays closed, so after any failure the loop,
\* the datagram handler and the request handler can still take their next
\* input.
C21_FailureIsolated ==
    /\ [](cbState = "closed" /\ cbFailures = 0)
    /\ [](launched => requestServer = "listening")
    /\ [][\A i \in DOMAIN flows :
             FailsNow(i) =>
                 /\ \A j \in DOMAIN flows \ {i} : flows'[j] = flows[j]
                 /\ UNCHANGED <<startVars, registryVars, discoveryVars,
                                breakerVars, requests>>]_vars
    /\ []((\E i \in DOMAIN flows : Failed(flows[i])) =>
             /\ (adding = "running" /\ Len(flows) < MaxFlows)
                    => \A device \in PlatformDevices :
                           ENABLED addDevices(device)
             /\ (socket = "bound" /\ Len(flows) < MaxFlows
                     /\ lastDgram.n < MaxDatagrams)
                    => \A d \in PlatformDatagrams :
                           ENABLED datagramMessageHandler(d)
             /\ (launched /\ Len(requests) < MaxRequests)
                    => \A r \in PlatformRequests : ENABLED handleRequest(r))

C21_Witness ==
    /\ Len(flows) = 2
    /\ Failed(flows[1])
    /\ flows[1].name = JsStr("Hall")
    /\ flows[2].name = JsStr("Auto-Discovered Dingz")
    /\ flows[2].path = "new"
    /\ \E i \in DOMAIN requests : requests[i].events = 1

\* C22: the registration of a device that never responds ends, and it ends
\* in an error at its caller: neither the value the entry point returns to
\* the retry policy nor the promise of its flow reports success or an
\* empty default.
C22_UnresponsiveEndsInError ==
    \A i \in DoneFlows :
        flows[i].path = "nodata" =>
            /\ flows[i].returned \notin {"true", "undefined"}
            /\ flows[i].promise \notin {"true", "undefined"}

\* C23: a transport failure of the request never leaves fetch as an
\* exception: the flow goes on with undefined, which no response gives,
\* whether the body or the status was asked for; and a flow's request
\* settles once.
C23_FetchNeverThrows ==
    /\ [](\A ep \in {"dingz", "switch", "bulb"} :
             \A o \in AxiosOutcomes(ep) : \A returnBody \in BOOLEAN :
                 (FetchResult(o, returnBody) = NoData)
                 <=> (o.kind \in AxiosFailures))
    /\ [](\A i \in DOMAIN flows :
             /\ flows[i].path # "threw"
             /\ flows[i].promise \notin AxiosFailures
             /\ flows[i].st = "settled" =>
                    /\ flows[i].axios \in AxiosFailures <=> flows[i].data = NoData
                    /\ flows[i].axios = "response" <=> flows[i].data.ok)
    /\ [][\A i \in DOMAIN flows :
             /\ flows[i].st # "fetching" => flows'[i].st # "fetching"
             /\ flows[i].st = "settled" =>
                    flows'[i].st = "done" \/ flows'[i] = flows[i]]_vars

C23_Witness ==
    \E i, j \in DOMAIN flows :
        /\ flows[i].st = "settled"
        /\ flows[i].axios = "ECONNABORTED"
        /\ flows[i].data = NoData
        /\ flows[j].st = "settled"
        /\ flows[j].axios = "response"
        /\ flows[j].data.ok

-----------------------------------------------------------------------------
(* Claims on the policies around a registration *)

\* What retryWithBreaker.execute does with the outcome of the operation it
\* ran: Policy.handleAll() counts every thrown error as a failure to retry,
\* and a returned value ends the call.
Reinvokes(returned) == returned # "true"

\* C24: only DeviceNotReachableError makes the retry policy invoke a
\* registration again: a flow that ended on a descriptor of the wrong type
\* is not handed back to the policy for another attempt, and a flow whose
\* device gave no data is.
C24_OnlyUnreachableRetried ==
    \A i \in DoneFlows :
        /\ flows[i].path = "invalid" => ~ Reinvokes(flows[i].returned)
        /\ flows[i].path = "nodata" => Reinvokes(flows[i].returned)

\* C25: an entry point that has returned success has committed its registry
\* change: the registry holds an entry under the identity of the device of
\* every flow whose entry point returned true.
C25_SuccessAfterCommit ==
    \A i \in DOMAIN flows :
        flows[i].returned = "true" => flows[i].uuid \in DOMAIN accessories

\* C26: under the slow policy a failed attempt to set the callback URL is
\* followed by another attempt: while the request of an accessory has
\* failed, its retrySlow.execute call is waiting for, or making, the next
\* attempt.
C26_RetriedUntilSet ==
    \A a \in PirAccessories :
        pir[a].request = "failed" => pir[a].st \in {"backoff", "attempt"}

\* C27: the circuit breaker is one state shared by every execute call: a
\* new call finds it as the last one left it; a success sets the failure
\* count to zero and closes it; while open inside its window it stays open
\* and lets nothing through; after the window the next attempt half-opens
\* it and is the only invocation let through, and that trial closes the
\* breaker when it succeeds and opens it again when it fails.
C27_SharedBreaker ==
    /\ [][exec'.n # exec.n => UNCHANGED breakerVars]_vars
    /\ [][exec'.succeeded # exec.succeeded
          => cbFailures' = 0 /\ cbState' = "closed"]_vars
    /\ [][cbState = "open" /\ ~ cbElapsed
          => /\ cbState' = "open"
             /\ cbFailures' = cbFailures
             /\ exec'.invoked = exec.invoked]_vars
    /\ [][cbState = "open" /\ cbElapsed /\ cbState' # "open"
          => /\ cbState' = "halfOpen"
             /\ exec'.invoked = exec.invoked + 1]_vars
    /\ [](cbState = "halfOpen" => exec.st = "calling")
    /\ [][cbState = "halfOpen" /\ exec' # exec
          => /\ exec'.invoked = exec.invoked
             /\ IF exec'.succeeded = exec.succeeded + 1
                THEN cbState' = "closed" /\ cbFailures' = 0
                ELSE cbState' = "open" /\ ~ cbElapsed']_vars

C27_Witness ==
    /\ exec.n = 2
    /\ exec.result = "value"
    /\ exec.opened >= 2
    /\ exec.rejected >= 1
    /\ exec.succeeded >= 1
    /\ cbState = "closed"
    /\ cbFailures = 0

-----------------------------------------------------------------------------
(* Further claims on discovery and startup *)

\* C28: once the handler has processed an 8-byte datagram, the MAC it read
\* from it is in the seen set of the session, whatever the type code, so
\* that the same device broadcasting again is dropped as a duplicate.
C28_MacRecordedWhateverType ==
    (lastDgram.n > 0 /\ ~ BadLength(lastDgram.msg))
        => MacOfDatagram(lastDgram.msg) \in discovered

\* C29: nothing is started before the did-finish-launching event: until
\* then no configured device is added, no socket is bound, no server
\* listens and nothing is registered with the bridge. After it the callback
\* server listens in every case, configured devices are added exactly when
\* the configuration lists devices, and the discovery socket exists exactly
\* when auto-discovery is enabled.
C29_StartOnLaunch ==
    /\ ~ launched =>
           /\ adding = "idle"
           /\ socket = "none"
           /\ requestServer = "none"
           /\ flows = <<>>
           /\ registered = <<>>
           /\ lastDgram.n = 0
           /\ requests = <<>>
    /\ launched =>
           /\ requestServer = "listening"
           /\ adding # "idle" <=> config.devices
           /\ socket # "none" <=> config.autoDiscover
    /\ ~ config.devices /\ ~ config.autoDiscover => flows = <<>>

C29_Witness ==
    /\ launched
    /\ config.devices
    /\ ~ config.autoDiscover
    /\ restored # {}
    /\ adding = "done"
    /\ socket = "none"
    /\ requestServer = "listening"
    /\ \E i \in DoneFlows : flows[i].uuid \in restored
    /\ requests # <<>>

-----------------------------------------------------------------------------
(* Claims on the display model *)

\* The label each logical switch model is shown with.
SwitchLabel(t) ==
    CASE t \in {JsNum(106), JsStr("WS2")} -> JsStr("CH v2")
      [] t \in {JsNum(107), JsStr("WSEU")} -> JsStr("EU")
      [] OTHER -> JsStr("CH v1")

LabelOf(ep, t) == IF ep = "switch" THEN SwitchLabel(t) ELSE JsStr("102")

\* C30: the display model never makes a switch or bulb registration fail:
\* a descriptor that its family's check lets through ends in a registry
\* entry, never in an error, and a new entry carries the label of its
\* logical model, the same for the numeric and the string encoding
\* (106 and "WS2", 107 and "WSEU"), and the generic label 'CH v1' when the
\* type is not in the table.
C30_ModelNeverFails ==
    /\ [](\A t \in MyStromTypes :
             IsSwitchType(t) =>
                 DeviceInfoOf("switch", "10.0.0.2", JsUndef, JsUndef,
                              Answer(MacLower, t, JsUndef, JsUndef)).model
                 = SwitchLabel(t))
    /\ [][\A i \in DOMAIN flows :
             (/\ flows[i].ep \in {"switch", "bulb"}
              /\ flows[i].st = "settled"
              /\ flows[i].data.ok
              /\ Accepts(flows[i].ep, flows[i].data.type)
              /\ flows'[i].st = "done")
             => /\ flows'[i].promise = "true"
                /\ flows'[i].path \in {"new", "already"}
                /\ flows'[i].uuid \in DOMAIN accessories'
                /\ flows'[i].path = "new" =>
                       accessories'[flows'[i].uuid].model
                       = LabelOf(flows[i].ep, flows[i].data.type)]_vars

C30_Witness ==
    /\ uuid_generate(MacUpper) \in DOMAIN accessories
    /\ accessories[uuid_generate(MacUpper)].model = JsStr("CH v1")
    /\ uuid_generate(toUpperCase(MacOther)) \in DOMAIN accessories
    /\ accessories[uuid_generate(toUpperCase(MacOther))].model = JsStr("CH v2")
    /\ \A i \in DOMAIN flows : flows[i].path = "new"

-----------------------------------------------------------------------------
(* Claims on the accessories' pollers *)

\* C31: the cached outlet state of the switch accessory is a defined report
\* in every reachable state, and every call of getOn, getOutletInUse and
\* getTemperature has invoked its callback exactly once, with a value, and
\* has raised nothing.
C31_OutletStateDefined ==
    /\ ~ IsUndefined(outlet.state)
    /\ outlet.call.handler \in {"getOn", "getOutletInUse", "getTemperature"}
           => /\ outlet.call.raised = "none"
              /\ outlet.call.callbacks = 1
              /\ outlet.call.value # <<>>

\* C32: a poll of the PIR sensor that obtains no report leaves the cached
\* motion, temperature and light values as they were and pushes no
\* characteristic; a poll that obtains a report pushes the motion
\* characteristic only when the reported motion differs from the cached
\* one, and stores and pushes temperature and light every time.
C32_PollFrame ==
    [][sensor'.last.n # sensor.last.n =>
          LET report == sensor'.last.report IN
          IF report = NoData
          THEN /\ sensor'.state = sensor.state
               /\ sensor'.updates = sensor.updates
          ELSE /\ sensor'.state.motion = report.motion
               /\ sensor'.updates.motion =
                      IF report.motion # sensor.state.motion
                      THEN sensor.updates.motion + 1
                      ELSE sensor.updates.motion
               /\ sensor'.state.temperature = report.temperature
               /\ sensor'.updates.temperature = sensor.updates.temperature + 1
               /\ sensor'.state.light =
                      IF report.light = JsUndef THEN JsNum(0) ELSE report.light
               /\ sensor'.updates.light = sensor.updates.light + 1]_vars

C32_Witness ==
    /\ sensor.last.n = 3
    /\ sensor.errors = 1
    /\ sensor.updates.motion = 1
    /\ sensor.updates.temperature = 2
    /\ sensor.updates.light = 2
    /\ sensor.state.motion
    /\ sensor.state.light = JsNum(0)

PollIs(i, st) == i \in DOMAIN sensor.polls /\ sensor.polls[i] = st

\* The polls of the sensor whose fetch is in flight.
Fetching == { i \in DOMAIN sensor.polls : sensor.polls[i] = "fetching" }

\* C33: at most one fetch of the sensor is in flight at any time, however
\* the polls overlap; the mutex is held exactly while a fetch is in flight,
\* so it is free again after every fetch, failed or not, and a poll only
\* ever waits behind a fetch that is in flight; and every waiting poll gets
\* its turn and ends once the fetches before it have ended.
C33_OneFetchAtATime ==
    /\ [](Cardinality(Fetching) <= 1)
    /\ [](sensor.locked <=> Fetching # {})
    /\ [](Waiting(sensor.polls) # {} => Fetching # {})
    /\ \A i \in 1..MaxSensorPolls : PollIs(i, "waiting") ~> PollIs(i, "done")

C33_Witness ==
    /\ sensor.polls = <<"done", "fetching", "waiting">>
    /\ sensor.errors = 1
    /\ sensor.locked

====
